---- MODULE Spec2Model ----
(***************************************************************************)
(* Session-state engine of the Vision-RAG client: the Redux slice          *)
(* "general" (src/frontend/app/page.jsx, lines 60-491), the thunks that    *)
(* feed it and the component handlers that dispatch them.                  *)
(*                                                                         *)
(* One step of the model is one reduction of the store (one dispatched     *)
(* action reaching the reducer) or one handler invocation that returns     *)
(* early.  A handler that dispatches twice in a row, or that continues     *)
(* after an awaited thunk, leaves its remaining synchronous work in        *)
(* `cont`; while `cont` is non-empty no other step is enabled, so the      *)
(* handler always runs to completion before anything else happens.         *)
(*                                                                         *)
(* The feedback dialog of ChatMessages keeps its state in the component,   *)
(* not in the store; `dialog` holds it.  The scenarios about the store     *)
(* take the dialog's message and rating as inputs of the submit handler    *)
(* and leave `dialog` alone; the dialog scenario follows it step by step.  *)
(***************************************************************************)
EXTENDS Naturals, Sequences, FiniteSets, Bags

VARIABLES
    state,      \* state.general of the Redux store
    inflight,   \* bag of thunk calls whose network call has not resolved yet
    cont,       \* synchronous work the running handler still has to do
    mounted,    \* Home's mount effect has run
    dialog,     \* ChatMessages' own state: the feedback dialog
    last        \* the last step: its kind, request, payload and the state before it

vars == <<state, inflight, cont, mounted, dialog, last>>

\* ------------------------------------------------------------------ bounds
MaxConvs == 2       \* longest conversations list
MaxMsgs == 2        \* longest transcript
MaxInFlight == 2    \* most network calls outstanding at once

\* ------------------------------------------------------------ value domains
Null == "null"                 \* JavaScript null
Undefined == "undefined"       \* JavaScript undefined / a missing field
ConvIds == {"A", "B"}
Errors == {"e1", "e2"}         \* error.response?.data || error.message
Blank == {"", " "}             \* input texts that trim to nothing

\* String.prototype.trim on the strings above
Trim(v) == IF v = " " THEN "" ELSE v

Truthy(v) == v # Null /\ v # Undefined /\ v # ""

Range(s) == {s[i] : i \in 1..Len(s)}

IndexOf(s, x) == IF x \in Range(s) THEN CHOOSE i \in 1..Len(s) : s[i] = x /\ \A j \in 1..(i - 1) : s[j] # x ELSE 0

RemoveAt(s, i) == [k \in 1..(Len(s) - 1) |-> IF k < i THEN s[k] ELSE s[k + 1]]

\* ------------------------------------------------------ backend payloads
\* A conversation record.  The list endpoint's entries are read through .id
\* (sidebar.jsx:31-44, page.jsx:339); the create endpoint's record is read
\* through .conversation_id (page.jsx:308) and may or may not carry .id.
Conv(id, cid) == [id |-> id, conversation_id |-> cid]

ListedConv(c) == Conv(c, Undefined)

CreatedConvs == {Conv(c, c) : c \in ConvIds} \cup {Conv(Undefined, c) : c \in ConvIds}

NoConv == Conv(Undefined, Undefined)

\* The documents of conversation c, as the backend names them.
DocName(c, k) == [conv |-> c, n |-> k]

\* The backend's document list of conversation c when it holds k documents.
DocumentList(c, k) == [i \in 1..k |-> DocName(c, i)]

\* A message identifier: a prefix and a number (`user_${Date.now()}`,
\* `ai_${Date.now()}`, or the backend's own id of a stored message).
MsgId(prefix, n) == [prefix |-> prefix, n |-> n]

Message(role, content, id) == [role |-> role, content |-> content, id |-> id]

\* A stored record of the history endpoint: {role, text, id}.
HistoryRecord(role, text, c, k) == [role |-> role, text |-> text, id |-> MsgId(c, k)]

\* The stored transcript of conversation c whose records have these roles.
Transcript(c, roles) == [i \in 1..Len(roles) |-> HistoryRecord(roles[i], "h", c, i)]

SearchResult(k) == [title |-> "title", url |-> k]

\* The first k results of a topic search.
SearchResults(k) == [i \in 1..k |-> SearchResult(i)]

\* ------------------------------------------------------------ thunk calls
\* One dispatched thunk call (or queued synchronous step): its type prefix and
\* its argument.  cid: conversation id; text: query, url, topic, file or
\* message id; docs: the selected documents; rest: what the awaiting handler
\* still has to submit; n: rating.
Call(op, cid, text, docs, rest, n, mid) == [op |-> op, cid |-> cid, text |-> text, docs |-> docs, rest |-> rest, n |-> n, mid |-> mid]

NoMsgId == MsgId("", 0)

Thunk(op, cid) == Call(op, cid, "", <<>>, <<>>, 0, NoMsgId)

NoCall == Thunk("none", Null)

Pending == BagCardinality(inflight)

Room == Pending < MaxInFlight

Outstanding(op) == {r \in BagToSet(inflight) : r.op = op}

\* ------------------------------------------------------------ initialState
initialState ==
    [conversations |-> <<>>,
     currentConversationId |-> Null,
     messages |-> <<>>,
     documents |-> <<>>,
     selectedDocuments |-> <<>>,
     topicSearchResults |-> <<>>,
     isLoading |-> FALSE,
     isSending |-> FALSE,
     isUploading |-> FALSE,
     isSearching |-> FALSE,
     error |-> Null]

\* --------------------------------------------------------------- reducers
\* Mutant: selecting also empties the transcript.
setCurrentConversationId_clearsMessages(s, id) == [s EXCEPT !.currentConversationId = id, !.messages = <<>>]

setCurrentConversationId(s, id) == [s EXCEPT !.currentConversationId = id]

\* Mutant: splice without a delete count, which drops the tail as well.
toggleSelectedDocument_dropsTail(s, docName) ==
    LET existingIndex == IndexOf(s.selectedDocuments, docName)
    IN  IF existingIndex # 0
        THEN [s EXCEPT !.selectedDocuments = SubSeq(s.selectedDocuments, 1, existingIndex - 1)]
        ELSE [s EXCEPT !.selectedDocuments = Append(s.selectedDocuments, docName)]

toggleSelectedDocument(s, docName) ==
    LET existingIndex == IndexOf(s.selectedDocuments, docName)
    IN  IF existingIndex # 0
        THEN [s EXCEPT !.selectedDocuments = RemoveAt(s.selectedDocuments, existingIndex)]
        ELSE [s EXCEPT !.selectedDocuments = Append(s.selectedDocuments, docName)]

clearSelectedDocuments(s) == [s EXCEPT !.selectedDocuments = <<>>]

clearTopicSearchResults(s) == [s EXCEPT !.topicSearchResults = <<>>]

clearError(s) == [s EXCEPT !.error = Null]

addLocalMessage(s, m) == [s EXCEPT !.messages = Append(s.messages, m)]

createNewChat_pending(s) == [s EXCEPT !.isLoading = TRUE, !.error = Null]

\* Mutant: the created conversation starts with the old selection.
createNewChat_fulfilled_keepsSelection(s, payload) ==
    [s EXCEPT !.isLoading = FALSE,
              !.conversations = Append(s.conversations, payload),
              !.currentConversationId = payload.conversation_id,
              !.messages = <<>>,
              !.documents = <<>>]

createNewChat_fulfilled(s, payload) ==
    [s EXCEPT !.isLoading = FALSE,
              !.conversations = Append(s.conversations, payload),
              !.currentConversationId = payload.conversation_id,
              !.messages = <<>>,
              !.documents = <<>>,
              !.selectedDocuments = <<>>]

createNewChat_rejected(s, payload) == [s EXCEPT !.isLoading = FALSE, !.error = payload]

fetchConversations_pending(s) == [s EXCEPT !.isLoading = TRUE]

\* Mutant: the list arrives and isLoading stays as it was.
fetchConversations_fulfilled_keepsLoading(s, payload) == [s EXCEPT !.conversations = payload]

\* Mutant: the backend's list is merged into the list held.
fetchConversations_fulfilled_merges(s, payload) == [s EXCEPT !.isLoading = FALSE, !.conversations = s.conversations \o payload]

fetchConversations_fulfilled(s, payload) == [s EXCEPT !.isLoading = FALSE, !.conversations = payload]

fetchConversations_rejected(s, payload) == [s EXCEPT !.isLoading = FALSE, !.error = payload]

deleteConversation_pending(s) == [s EXCEPT !.isLoading = TRUE]

\* Mutant: deleting the current conversation keeps its documents.
deleteConversation_fulfilled_keepsDocuments(s, payload) ==
    LET kept == SelectSeq(s.conversations, LAMBDA c : c.id # payload)
    IN  IF s.currentConversationId = payload
        THEN [s EXCEPT !.isLoading = FALSE,
                       !.conversations = kept,
                       !.currentConversationId = Null,
                       !.messages = <<>>,
                       !.selectedDocuments = <<>>]
        ELSE [s EXCEPT !.isLoading = FALSE, !.conversations = kept]

\* Mutant: every deletion resets the session, whichever conversation it was.
deleteConversation_fulfilled_alwaysClears(s, payload) ==
    [s EXCEPT !.isLoading = FALSE,
              !.conversations = SelectSeq(s.conversations, LAMBDA c : c.id # payload),
              !.currentConversationId = Null,
              !.messages = <<>>,
              !.documents = <<>>,
              !.selectedDocuments = <<>>]

deleteConversation_fulfilled(s, payload) ==
    LET kept == SelectSeq(s.conversations, LAMBDA c : c.id # payload)
    IN  IF s.currentConversationId = payload
        THEN [s EXCEPT !.isLoading = FALSE,
                       !.conversations = kept,
                       !.currentConversationId = Null,
                       !.messages = <<>>,
                       !.documents = <<>>,
                       !.selectedDocuments = <<>>]
        ELSE [s EXCEPT !.isLoading = FALSE, !.conversations = kept]

deleteConversation_rejected(s, payload) == [s EXCEPT !.isLoading = FALSE, !.error = payload]

fetchConversationHistory_pending(s) == [s EXCEPT !.isLoading = TRUE]

\* Mutant: only role "ai" becomes assistant.
HistoryMessage_aiOnly(m) == Message(IF m.role = "ai" THEN "assistant" ELSE "user", m.text, m.id)

HistoryMessage(m) == Message(IF m.role = "human" THEN "user" ELSE "assistant", m.text, m.id)

\* payload: action.payload.messages; arg: action.meta.arg, the conversation id
\* the history was requested for, which the reducer does not read.
\* Mutant: a transcript requested for another conversation is discarded.
fetchConversationHistory_fulfilled_fenced(s, payload, arg) ==
    IF arg = s.currentConversationId
    THEN [s EXCEPT !.isLoading = FALSE,
                   !.messages = [i \in 1..Len(payload) |-> HistoryMessage(payload[i])]]
    ELSE [s EXCEPT !.isLoading = FALSE]

fetchConversationHistory_fulfilled(s, payload, arg) ==
    [s EXCEPT !.isLoading = FALSE,
              !.messages = [i \in 1..Len(payload) |-> HistoryMessage(payload[i])]]

fetchConversationHistory_rejected(s, payload) == [s EXCEPT !.isLoading = FALSE, !.error = payload]

uploadFile_pending(s) == [s EXCEPT !.isUploading = TRUE, !.error = Null]

uploadFile_fulfilled(s, payload) == [s EXCEPT !.isUploading = FALSE, !.documents = payload]

uploadFile_rejected(s, payload) == [s EXCEPT !.isUploading = FALSE, !.error = payload]

ingestUrl_pending(s) == [s EXCEPT !.isLoading = TRUE, !.error = Null]

ingestUrl_fulfilled(s) == [s EXCEPT !.isLoading = FALSE]

ingestUrl_rejected(s, payload) == [s EXCEPT !.isLoading = FALSE, !.error = payload]

searchTopic_pending(s) == [s EXCEPT !.isSearching = TRUE, !.error = Null]

searchTopic_fulfilled(s, payload) == [s EXCEPT !.isSearching = FALSE, !.topicSearchResults = payload]

searchTopic_rejected(s, payload) == [s EXCEPT !.isSearching = FALSE, !.error = payload]

ingestTopic_pending(s) == [s EXCEPT !.isLoading = TRUE, !.error = Null]

ingestTopic_fulfilled(s) == [s EXCEPT !.isLoading = FALSE, !.topicSearchResults = <<>>]

ingestTopic_rejected(s, payload) == [s EXCEPT !.isLoading = FALSE, !.error = payload]

fetchDocuments_pending(s) == [s EXCEPT !.isLoading = TRUE]

fetchDocuments_fulfilled(s, payload) == [s EXCEPT !.isLoading = FALSE, !.documents = payload]

\* Mutant: the first unacknowledged failure wins.
fetchDocuments_rejected_keepsFirst(s, payload) ==
    [s EXCEPT !.isLoading = FALSE, !.error = IF s.error = Null THEN payload ELSE s.error]

fetchDocuments_rejected(s, payload) == [s EXCEPT !.isLoading = FALSE, !.error = payload]

sendMessage_pending(s) == [s EXCEPT !.isSending = TRUE, !.error = Null]

\* Mutant: the answer takes the place of the last message.
sendMessage_fulfilled_replaces(s, response, now) ==
    IF Truthy(response)
    THEN [s EXCEPT !.isSending = FALSE,
                   !.messages = Append(SubSeq(s.messages, 1, Len(s.messages) - 1), Message("assistant", response, MsgId("ai_", now)))]
    ELSE [s EXCEPT !.isSending = FALSE]

\* Mutant: an assistant message is appended whatever the response is.
sendMessage_fulfilled_appendsAlways(s, response, now) ==
    [s EXCEPT !.isSending = FALSE,
              !.messages = Append(s.messages, Message("assistant", response, MsgId("ai_", now)))]

sendMessage_fulfilled(s, response, now) ==
    IF Truthy(response)
    THEN [s EXCEPT !.isSending = FALSE,
                   !.messages = Append(s.messages, Message("assistant", response, MsgId("ai_", now)))]
    ELSE [s EXCEPT !.isSending = FALSE]

\* Mutant: the failure rolls the optimistic message back.
sendMessage_rejected_rollsBack(s, payload) ==
    [s EXCEPT !.isSending = FALSE, !.error = payload, !.messages = SubSeq(s.messages, 1, Len(s.messages) - 1)]

sendMessage_rejected(s, payload) == [s EXCEPT !.isSending = FALSE, !.error = payload]

\* Mutant: the started event resets error as the ingestion families do.
submitFeedback_pending_clearsError(s) == [s EXCEPT !.isLoading = TRUE, !.error = Null]

submitFeedback_pending(s) == [s EXCEPT !.isLoading = TRUE]

submitFeedback_fulfilled(s) == [s EXCEPT !.isLoading = FALSE]

submitFeedback_rejected(s, payload) == [s EXCEPT !.isLoading = FALSE, !.error = payload]


\* ------------------------------------------------------------------ steps
\* What `last` records of a step: the action type and phase that reached the
\* reducer ("noop" for a handler that returned early), the thunk call, the
\* payload (by type), and the state and the outstanding calls before the step.
\* ChatMessages' useState values at mount: activeMessageId null (no dialog
\* open), selectedRating 0, isSubmittingFeedback false, feedbackError "".
closedDialog ==
    [activeMessageId |-> NoMsgId, selectedRating |-> 0, isSubmittingFeedback |-> FALSE, feedbackError |-> ""]

Step(type, phase, call, str, seq, conv) ==
    [type |-> type, phase |-> phase, call |-> call, str |-> str, seq |-> seq, conv |-> conv, pre |-> state, calls |-> inflight,
     dlg |-> dialog]

Event(type, phase, call) == Step(type, phase, call, "", <<>>, NoConv)

Idle == cont = <<>>

Add(call) == inflight (+) SetToBag({call})

Remove(call) == inflight (-) SetToBag({call})

Init ==
    /\ state = initialState
    /\ inflight = EmptyBag
    /\ cont = <<>>
    /\ mounted = FALSE
    /\ dialog = closedDialog
    /\ last = [type |-> "init", phase |-> "init", call |-> NoCall, str |-> "", seq |-> <<>>, conv |-> NoConv, pre |-> initialState, calls |-> EmptyBag,
               dlg |-> closedDialog]

\* A handler that returns at its guard: nothing is dispatched.
Noop(handler, str, seq) ==
    /\ last' = Step(handler, "noop", NoCall, str, seq, NoConv)
    /\ UNCHANGED <<state, inflight, cont, mounted, dialog>>

\* dispatch(thunk(arg)) as the first dispatch of a handler: the pending action
\* is reduced and the network call starts; `after` is what the handler does next.
Dispatch(call, newState, after) ==
    /\ Room
    /\ state' = newState
    /\ inflight' = Add(call)
    /\ cont' = after
    /\ last' = Event(call.op, "pending", call)
    /\ UNCHANGED <<mounted, dialog>>

\* dispatch(reducerAction(arg)): a synchronous reduction.
Reduce(type, call, newState, after, str, seq) ==
    /\ state' = newState
    /\ cont' = after
    /\ last' = Step(type, "reducer", call, str, seq, NoConv)
    /\ UNCHANGED <<inflight, mounted, dialog>>

\* Home: useEffect(() => dispatch(fetchConversations()), [dispatch])
HomeMount ==
    /\ Idle /\ ~mounted
    /\ mounted' = TRUE
    /\ state' = fetchConversations_pending(state)
    /\ inflight' = Add(Thunk("fetchConversations", Null))
    /\ last' = Event("fetchConversations", "pending", Thunk("fetchConversations", Null))
    /\ UNCHANGED <<cont, dialog>>

\* Home.handleCreateNewChat: dispatch(createNewChat()); dispatch(clearSelectedDocuments())
HandleCreateNewChat ==
    /\ Idle
    /\ Dispatch(Thunk("createNewChat", Null), createNewChat_pending(state), <<Thunk("clearSelectedDocuments", Null)>>)

ContClearSelectedDocuments ==
    /\ cont # <<>> /\ Head(cont).op = "clearSelectedDocuments"
    /\ Reduce("clearSelectedDocuments", Head(cont), clearSelectedDocuments(state), Tail(cont), "", <<>>)

\* The ids the sidebar offers: chat.id of every entry of conversations.
SidebarIds == {c.id : c \in Range(state.conversations)}

\* Home.handleSelectConversation
HandleSelectConversation(conversationId) ==
    /\ Idle
    /\ conversationId \in SidebarIds
    /\ Reduce("setCurrentConversationId", NoCall, setCurrentConversationId(state, conversationId), <<>>, conversationId, <<>>)

\* Home.handleDeleteConversation
HandleDeleteConversation(conversationId) ==
    /\ Idle
    /\ conversationId \in SidebarIds
    /\ Dispatch(Thunk("deleteConversation", conversationId), deleteConversation_pending(state), <<>>)

\* dispatch(fetchConversationHistory(conversationId)): the exported thunk
DispatchFetchConversationHistory(conversationId) ==
    /\ Idle
    /\ Dispatch(Thunk("fetchConversationHistory", conversationId), fetchConversationHistory_pending(state), <<>>)

\* ContextPanel.handleToggleDocument: one checkbox per entry of documents
HandleToggleDocument(docName) ==
    /\ Idle
    /\ docName \in Range(state.documents)
    /\ Reduce("toggleSelectedDocument", NoCall, toggleSelectedDocument(state, docName), <<>>, "", <<docName>>)

SendCall(conversationId, userQuery, selectedDocuments) == Call("sendMessage", conversationId, userQuery, selectedDocuments, <<>>, 0, NoMsgId)

\* Mutant: the guard forgets the document selection.
SendGate_ignoresSelection(userQuery) == Truthy(Trim(userQuery)) /\ Truthy(state.currentConversationId)

\* The guard of ChatArea.handleSendMessage
SendGate(userQuery) == Truthy(Trim(userQuery)) /\ Truthy(state.currentConversationId) /\ Len(state.selectedDocuments) > 0

\* ChatArea.handleSendMessage: the guard, then dispatch(addLocalMessage(userMessage));
\* dispatch(sendMessage({...})) follows as the handler's next statement.
HandleSendMessage(userQuery, now) ==
    /\ Idle
    /\ IF ~SendGate(userQuery)
       THEN Noop("handleSendMessage", userQuery, <<>>)
       ELSE /\ Room /\ Len(state.messages) < MaxMsgs
            /\ Reduce("addLocalMessage", NoCall, addLocalMessage(state, Message("user", userQuery, MsgId("user_", now))),
                      <<SendCall(state.currentConversationId, userQuery, state.selectedDocuments)>>, userQuery, <<>>)

\* A thunk dispatched as the running handler's next statement.
ContDispatch(op, newState) ==
    /\ cont # <<>> /\ Head(cont).op = op
    /\ state' = newState
    /\ inflight' = Add(Head(cont))
    /\ cont' = Tail(cont)
    /\ last' = Event(op, "pending", Head(cont))
    /\ UNCHANGED <<mounted, dialog>>

ContSendMessage == ContDispatch("sendMessage", sendMessage_pending(state))

ContFetchDocuments == ContDispatch("fetchDocuments", fetchDocuments_pending(state))

ContUploadFile == ContDispatch("uploadFile", uploadFile_pending(state))

ContClearTopicSearchResults ==
    /\ cont # <<>> /\ Head(cont).op = "clearTopicSearchResults"
    /\ Reduce("clearTopicSearchResults", Head(cont), clearTopicSearchResults(state), Tail(cont), "", <<>>)

\* The k files picked for one upload, each named by its position in the list.
FileList(k) == [i \in 1..k |-> i]

UploadCall(conversationId, files) == Call("uploadFile", conversationId, "", <<>>, Tail(files), Head(files), NoMsgId)

\* FileUpload.handleUpload, up to its first await
HandleUpload(files) ==
    /\ Idle
    /\ IF Len(files) = 0 \/ ~Truthy(state.currentConversationId)
       THEN Noop("handleUpload", "", files)
       ELSE Dispatch(UploadCall(state.currentConversationId, files), uploadFile_pending(state), <<>>)

\* Mutant: the document list is refreshed after every file and the loop ends.
AfterUpload_refreshesEachTime(call) == <<Thunk("fetchDocuments", call.cid)>>

\* FileUpload.handleUpload after `await dispatch(uploadFile(...))`: the next
\* file of the loop, or setFiles([]) and dispatch(fetchDocuments(conversationId)).
AfterUpload(call) ==
    IF Len(call.rest) > 0
    THEN <<UploadCall(call.cid, call.rest)>>
    ELSE <<Thunk("fetchDocuments", call.cid)>>

IngestUrlCall(url, conversationId) == Call("ingestUrl", conversationId, url, <<>>, <<>>, 0, NoMsgId)

\* Mutant: the guard looks at the URL only.
HandleProcess_ignoresConversation(url) ==
    /\ Idle
    /\ IF ~Truthy(Trim(url))
       THEN Noop("handleProcess", url, <<>>)
       ELSE Dispatch(IngestUrlCall(url, state.currentConversationId), ingestUrl_pending(state), <<>>)

\* UrlIngestion.handleProcess, up to its await
HandleProcess(url) ==
    /\ Idle
    /\ IF ~Truthy(Trim(url)) \/ ~Truthy(state.currentConversationId)
       THEN Noop("handleProcess", url, <<>>)
       ELSE Dispatch(IngestUrlCall(url, state.currentConversationId), ingestUrl_pending(state), <<>>)

\* UrlIngestion.handleProcess after its await: setUrl(""); dispatch(fetchDocuments(conversationId))
AfterIngestUrl(call) == <<Thunk("fetchDocuments", call.cid)>>

SearchTopicCall(topic) == Call("searchTopic", Undefined, topic, <<>>, <<>>, 0, NoMsgId)

\* TopicSearch.handleSearch
HandleSearch(topic) ==
    /\ Idle
    /\ IF ~Truthy(Trim(topic))
       THEN Noop("handleSearch", topic, <<>>)
       ELSE Dispatch(SearchTopicCall(topic), searchTopic_pending(state), <<>>)

\* The URL selections the checkboxes of the result list allow, in list order.
UrlSelections ==
    {SelectSeq([i \in 1..Len(state.topicSearchResults) |-> state.topicSearchResults[i].url], LAMBDA u : u \in S) :
        S \in SUBSET {r.url : r \in Range(state.topicSearchResults)}}

\* dispatch(ingestTopic({topic, conversationId, selectedUrls})): the thunk's
\* payload creator destructures {topic, conversationId} only.
IngestTopicCall(topic, conversationId, selectedUrls) == Call("ingestTopic", conversationId, topic, <<>>, <<>>, 0, NoMsgId)

\* TopicSearch.handleIngestSelected, up to its await
HandleIngestSelected(topic, selectedUrls) ==
    /\ Idle
    /\ selectedUrls \in UrlSelections
    /\ IF Len(selectedUrls) = 0 \/ ~Truthy(state.currentConversationId)
       THEN Noop("handleIngestSelected", topic, selectedUrls)
       ELSE /\ Room
            /\ state' = ingestTopic_pending(state)
            /\ inflight' = Add(IngestTopicCall(topic, state.currentConversationId, selectedUrls))
            /\ last' = Step("ingestTopic", "pending", IngestTopicCall(topic, state.currentConversationId, selectedUrls), topic, selectedUrls, NoConv)
            /\ UNCHANGED <<cont, mounted, dialog>>

\* TopicSearch.handleIngestSelected after its await: setSelectedUrls(new Set());
\* setTopic(""); dispatch(clearTopicSearchResults()); dispatch(fetchDocuments(conversationId))
AfterIngestTopic(call) == <<Thunk("clearTopicSearchResults", Null), Thunk("fetchDocuments", call.cid)>>

\* The stars of the feedback dialog: [1, 2, 3, 4, 5]; 0 is "no star chosen".
MaxRating == 5

\* The messages that show a feedback dialog: !isUser && msg.id && conversationId
FeedbackTargets == {m.id : m \in {x \in Range(state.messages) : x.role # "user"}}

SubmitFeedbackCall(conversationId, messageId, rating) == Call("submitFeedback", conversationId, "", <<>>, <<>>, rating, messageId)

\* Mutant: an unset rating passes the guard.
FeedbackGate_allowsUnset(activeMessageId, selectedRating) == Truthy(state.currentConversationId) /\ activeMessageId # NoMsgId

\* The guard of ChatMessages.handleSubmitFeedback
FeedbackGate(activeMessageId, selectedRating) ==
    Truthy(state.currentConversationId) /\ activeMessageId # NoMsgId /\ selectedRating # 0

\* ChatMessages.handleSubmitFeedback, up to its await, as the store sees it:
\* the component's activeMessageId and selectedRating are inputs and `dialog`
\* is not followed.
HandleSubmitFeedback(activeMessageId, selectedRating) ==
    /\ Idle
    /\ activeMessageId \in FeedbackTargets \cup {NoMsgId}
    /\ IF ~FeedbackGate(activeMessageId, selectedRating)
       THEN Noop("handleSubmitFeedback", "", <<selectedRating>>)
       ELSE Dispatch(SubmitFeedbackCall(state.currentConversationId, activeMessageId, selectedRating), submitFeedback_pending(state), <<>>)

\* ------------------------------------------------------ the feedback dialog
\* ChatMessages.closeFeedback
closeFeedback(d) ==
    [d EXCEPT !.activeMessageId = NoMsgId, !.selectedRating = 0, !.isSubmittingFeedback = FALSE, !.feedbackError = ""]

\* The onOpenChange callback of the Dialog.Root rendered for message msgId
onOpenChange(d, msgId, open) ==
    IF open
    THEN [d EXCEPT !.activeMessageId = msgId, !.selectedRating = 0, !.feedbackError = ""]
    ELSE closeFeedback(d)

\* A step of the component's own state: the store is not involved.
Local(type, msgId, newDialog, seq) ==
    /\ Idle
    /\ dialog' = newDialog
    /\ last' = Step(type, "local", [NoCall EXCEPT !.mid = msgId], "", seq, NoConv)
    /\ UNCHANGED <<state, inflight, cont, mounted>>

\* The Dialog.Root of an assistant message reports a change of its open state:
\* its trigger is clicked while no dialog is open (an open dialog is modal and
\* covers the triggers), or the open dialog is dismissed (Escape, a click on
\* the overlay, or Cancel).
OnOpenChange(msgId, open) ==
    /\ Truthy(state.currentConversationId)
    /\ msgId \in FeedbackTargets
    /\ IF open THEN dialog.activeMessageId = NoMsgId ELSE dialog.activeMessageId = msgId
    /\ Local("onOpenChange", msgId, onOpenChange(dialog, msgId, open), <<>>)

\* A star of the open dialog is clicked: setSelectedRating(value)
SetSelectedRating(value) ==
    /\ dialog.activeMessageId # NoMsgId
    /\ Local("setSelectedRating", dialog.activeMessageId, [dialog EXCEPT !.selectedRating = value], <<value>>)

\* ChatMessages.handleSubmitFeedback, up to its await, on the component's own
\* activeMessageId and selectedRating.
SubmitFeedbackOfDialog ==
    /\ Idle
    /\ IF ~FeedbackGate(dialog.activeMessageId, dialog.selectedRating)
       THEN Noop("handleSubmitFeedback", "", <<dialog.selectedRating>>)
       ELSE /\ Room
            /\ dialog' = [dialog EXCEPT !.isSubmittingFeedback = TRUE, !.feedbackError = ""]
            /\ state' = submitFeedback_pending(state)
            /\ inflight' = Add(SubmitFeedbackCall(state.currentConversationId, dialog.activeMessageId, dialog.selectedRating))
            /\ last' = Event("submitFeedback", "pending",
                             SubmitFeedbackCall(state.currentConversationId, dialog.activeMessageId, dialog.selectedRating))
            /\ UNCHANGED <<cont, mounted>>

\* Rejection payloads that are objects (error.response.data) rather than
\* strings, written as strings: one with a detail and one without.
ObjectPayloads == {"{detail: d}", "{}"}

\* error?.detail
Detail(error) == IF error = "{detail: d}" THEN "d" ELSE Undefined

\* handleSubmitFeedback's catch: the text shown in the dialog
fallbackMessage(error) ==
    IF error \notin ObjectPayloads
    THEN error
    ELSE IF Truthy(Detail(error)) THEN Detail(error) ELSE "Unable to submit feedback."

\* Mutant: a failure dismisses the dialog as a success does.
HandleSubmitFeedback_catch_closes(d, error) == closeFeedback(d)

\* handleSubmitFeedback's catch block
HandleSubmitFeedback_catch(d, error) ==
    [d EXCEPT !.feedbackError = fallbackMessage(error), !.isSubmittingFeedback = FALSE]

\* --------------------------------------------------- network resolutions
\* The network call of `call` resolves: the thunk's fulfilled or rejected
\* action is reduced, and the handler awaiting it (if any) resumes with `after`.
Resolve(phase, call, newState, after, str, seq, conv) ==
    /\ Idle
    /\ state' = newState
    /\ inflight' = Remove(call)
    /\ cont' = after
    /\ last' = Step(call.op, phase, call, str, seq, conv)
    /\ UNCHANGED <<mounted, dialog>>

Reject(call, newState, after, payload) == Resolve("rejected", call, newState, after, payload, <<>>, NoConv)

CreateNewChatFulfilled(payload) ==
    \E call \in Outstanding("createNewChat") :
        /\ Len(state.conversations) < MaxConvs
        /\ Resolve("fulfilled", call, createNewChat_fulfilled(state, payload), <<>>, "", <<>>, payload)

CreateNewChatRejected(payload) ==
    \E call \in Outstanding("createNewChat") :
        Reject(call, createNewChat_rejected(state, payload), <<>>, payload)

\* return response.data.conversations
FetchConversationsFulfilled(payload) ==
    \E call \in Outstanding("fetchConversations") :
        /\ Len(payload) <= MaxConvs
        /\ Resolve("fulfilled", call, fetchConversations_fulfilled(state, payload), <<>>, "", payload, NoConv)

FetchConversationsRejected(payload) ==
    \E call \in Outstanding("fetchConversations") :
        Reject(call, fetchConversations_rejected(state, payload), <<>>, payload)

\* return conversationId
DeleteConversationFulfilled ==
    \E call \in Outstanding("deleteConversation") :
        Resolve("fulfilled", call, deleteConversation_fulfilled(state, call.cid), <<>>, call.cid, <<>>, NoConv)

DeleteConversationRejected(payload) ==
    \E call \in Outstanding("deleteConversation") :
        Reject(call, deleteConversation_rejected(state, payload), <<>>, payload)

\* return response.data, read as action.payload.messages
FetchConversationHistoryFulfilled(roles) ==
    \E call \in Outstanding("fetchConversationHistory") :
        /\ Len(roles) <= MaxMsgs
        /\ Resolve("fulfilled", call, fetchConversationHistory_fulfilled(state, Transcript(call.cid, roles), call.cid), <<>>,
                   "", Transcript(call.cid, roles), NoConv)

FetchConversationHistoryRejected(payload) ==
    \E call \in Outstanding("fetchConversationHistory") :
        Reject(call, fetchConversationHistory_rejected(state, payload), <<>>, payload)

\* return response.data, read as action.payload.document_names
UploadFileFulfilled(k) ==
    \E call \in Outstanding("uploadFile") :
        Resolve("fulfilled", call, uploadFile_fulfilled(state, DocumentList(call.cid, k)), AfterUpload(call),
                "", DocumentList(call.cid, k), NoConv)

UploadFileRejected(payload) ==
    \E call \in Outstanding("uploadFile") :
        Reject(call, uploadFile_rejected(state, payload), AfterUpload(call), payload)

IngestUrlFulfilled ==
    \E call \in Outstanding("ingestUrl") :
        Resolve("fulfilled", call, ingestUrl_fulfilled(state), AfterIngestUrl(call), "", <<>>, NoConv)

IngestUrlRejected(payload) ==
    \E call \in Outstanding("ingestUrl") :
        Reject(call, ingestUrl_rejected(state, payload), AfterIngestUrl(call), payload)

\* return response.data, read as action.payload.results || []
SearchTopicFulfilled(k) ==
    \E call \in Outstanding("searchTopic") :
        Resolve("fulfilled", call, searchTopic_fulfilled(state, SearchResults(k)), <<>>, "", SearchResults(k), NoConv)

SearchTopicRejected(payload) ==
    \E call \in Outstanding("searchTopic") :
        Reject(call, searchTopic_rejected(state, payload), <<>>, payload)

IngestTopicFulfilled ==
    \E call \in Outstanding("ingestTopic") :
        Resolve("fulfilled", call, ingestTopic_fulfilled(state), AfterIngestTopic(call), "", <<>>, NoConv)

IngestTopicRejected(payload) ==
    \E call \in Outstanding("ingestTopic") :
        Reject(call, ingestTopic_rejected(state, payload), AfterIngestTopic(call), payload)

\* return response.data.documents
FetchDocumentsFulfilled(k) ==
    \E call \in Outstanding("fetchDocuments") :
        Resolve("fulfilled", call, fetchDocuments_fulfilled(state, DocumentList(call.cid, k)), <<>>,
                "", DocumentList(call.cid, k), NoConv)

FetchDocumentsRejected(payload) ==
    \E call \in Outstanding("fetchDocuments") :
        Reject(call, fetchDocuments_rejected(state, payload), <<>>, payload)

\* return response.data, read as action.payload.response
SendMessageFulfilled(response, now) ==
    \E call \in Outstanding("sendMessage") :
        /\ Truthy(response) => Len(state.messages) < MaxMsgs
        /\ Resolve("fulfilled", call, sendMessage_fulfilled(state, response, now), <<>>, response, <<>>, NoConv)

SendMessageRejected(payload) ==
    \E call \in Outstanding("sendMessage") :
        Reject(call, sendMessage_rejected(state, payload), <<>>, payload)

SubmitFeedbackFulfilled ==
    \E call \in Outstanding("submitFeedback") :
        Resolve("fulfilled", call, submitFeedback_fulfilled(state), <<>>, "", <<>>, NoConv)

SubmitFeedbackRejected(payload) ==
    \E call \in Outstanding("submitFeedback") :
        Reject(call, submitFeedback_rejected(state, payload), <<>>, payload)

\* A submission made from the dialog succeeds: submitFeedback.fulfilled is
\* reduced, unwrap() returns and handleSubmitFeedback goes on to closeFeedback().
SubmitFeedbackOfDialogFulfilled ==
    \E call \in Outstanding("submitFeedback") :
        /\ Idle
        /\ state' = submitFeedback_fulfilled(state)
        /\ inflight' = Remove(call)
        /\ dialog' = closeFeedback(dialog)
        /\ last' = Event("submitFeedback", "fulfilled", call)
        /\ UNCHANGED <<cont, mounted>>

\* A submission made from the dialog fails: submitFeedback.rejected is
\* reduced, unwrap() throws the payload and handleSubmitFeedback's catch runs.
SubmitFeedbackOfDialogRejected(payload) ==
    \E call \in Outstanding("submitFeedback") :
        /\ Idle
        /\ state' = submitFeedback_rejected(state, payload)
        /\ inflight' = Remove(call)
        /\ dialog' = HandleSubmitFeedback_catch(dialog, payload)
        /\ last' = Step("submitFeedback", "rejected", call, payload, <<>>, NoConv)
        /\ UNCHANGED <<cont, mounted>>

\* ------------------------------------------------------------ specifications
\* The whole client: every handler and every resolution, with their inputs.
Next ==
    \/ HomeMount
    \/ \E payload \in UNION {[1..k -> {ListedConv(c) : c \in ConvIds}] : k \in 0..MaxConvs} : FetchConversationsFulfilled(payload)
    \/ \E payload \in Errors : FetchConversationsRejected(payload)
    \/ HandleCreateNewChat
    \/ ContClearSelectedDocuments
    \/ \E payload \in CreatedConvs : CreateNewChatFulfilled(payload)
    \/ \E payload \in Errors : CreateNewChatRejected(payload)
    \/ \E conversationId \in ConvIds \cup {Undefined} : HandleSelectConversation(conversationId)
    \/ \E conversationId \in ConvIds \cup {Undefined} : HandleDeleteConversation(conversationId)
    \/ DeleteConversationFulfilled
    \/ \E payload \in Errors : DeleteConversationRejected(payload)
    \/ \E conversationId \in ConvIds : DispatchFetchConversationHistory(conversationId)
    \/ \E roles \in UNION {[1..k -> {"human", "ai", "system"}] : k \in 0..MaxMsgs} : FetchConversationHistoryFulfilled(roles)
    \/ \E payload \in Errors : FetchConversationHistoryRejected(payload)
    \/ \E docName \in Range(state.documents) : HandleToggleDocument(docName)
    \/ \E userQuery \in Blank \cup {"q"}, now \in {0, 1} : HandleSendMessage(userQuery, now)
    \/ ContSendMessage
    \/ \E response \in {"", "r"}, now \in {0, 1} : SendMessageFulfilled(response, now)
    \/ \E payload \in Errors : SendMessageRejected(payload)
    \/ \E files \in {FileList(k) : k \in 0..2} : HandleUpload(files)
    \/ ContUploadFile
    \/ \E k \in 0..2 : UploadFileFulfilled(k)
    \/ \E payload \in Errors : UploadFileRejected(payload)
    \/ ContFetchDocuments
    \/ \E k \in 0..2 : FetchDocumentsFulfilled(k)
    \/ \E payload \in Errors : FetchDocumentsRejected(payload)
    \/ \E url \in Blank \cup {"u"} : HandleProcess(url)
    \/ IngestUrlFulfilled
    \/ \E payload \in Errors : IngestUrlRejected(payload)
    \/ \E topic \in Blank \cup {"t"} : HandleSearch(topic)
    \/ \E k \in 0..2 : SearchTopicFulfilled(k)
    \/ \E payload \in Errors : SearchTopicRejected(payload)
    \/ \E topic \in Blank \cup {"t"}, selectedUrls \in UrlSelections : HandleIngestSelected(topic, selectedUrls)
    \/ ContClearTopicSearchResults
    \/ IngestTopicFulfilled
    \/ \E payload \in Errors : IngestTopicRejected(payload)
    \/ \E msgId \in FeedbackTargets, open \in BOOLEAN : OnOpenChange(msgId, open)
    \/ \E value \in 1..MaxRating : SetSelectedRating(value)
    \/ SubmitFeedbackOfDialog
    \/ SubmitFeedbackOfDialogFulfilled
    \/ \E payload \in Errors \cup ObjectPayloads : SubmitFeedbackOfDialogRejected(payload)

Spec == Init /\ [][Next]_vars

\* The specifications below are Spec with the user and the backend restricted
\* to one scenario each: every behaviour of theirs is a behaviour of Spec.

\* Conversation lifecycle: list, create, select, delete; the transcript is
\* filled by a history fetch, the document list by an upload.
NextConv ==
    \/ HomeMount
    \/ \E payload \in {<<ListedConv("A"), ListedConv("B")>>} : FetchConversationsFulfilled(payload)
    \/ HandleCreateNewChat
    \/ ContClearSelectedDocuments
    \/ \E payload \in {Conv("B", "B")} : CreateNewChatFulfilled(payload)
    \/ \E conversationId \in ConvIds : HandleSelectConversation(conversationId)
    \/ \E conversationId \in ConvIds : HandleDeleteConversation(conversationId)
    \/ DeleteConversationFulfilled
    \/ \E conversationId \in {"A"} : DispatchFetchConversationHistory(conversationId)
    \/ \E roles \in {<<"human">>} : FetchConversationHistoryFulfilled(roles)
    \/ \E files \in {FileList(1)} : HandleUpload(files)
    \/ \E k \in {1} : UploadFileFulfilled(k)
    \/ ContFetchDocuments
    \/ \E k \in {1} : FetchDocumentsFulfilled(k)
    \/ \E docName \in Range(state.documents) : HandleToggleDocument(docName)

SpecConv == Init /\ [][NextConv]_vars

\* Message exchange: a conversation is created, a document uploaded and
\* selected, queries are sent; a second "New Chat" may come at any time.
NextChat ==
    \/ HandleCreateNewChat
    \/ ContClearSelectedDocuments
    \/ \E payload \in {Conv("A", "A")} : CreateNewChatFulfilled(payload)
    \/ \E files \in {FileList(1)} : HandleUpload(files)
    \/ \E k \in {1} : UploadFileFulfilled(k)
    \/ ContFetchDocuments
    \/ \E k \in {1} : FetchDocumentsFulfilled(k)
    \/ \E docName \in Range(state.documents) : HandleToggleDocument(docName)
    \/ \E userQuery \in Blank \cup {"q"} : HandleSendMessage(userQuery, 0)
    \/ ContSendMessage
    \/ \E response \in {"", "r"} : SendMessageFulfilled(response, 0)
    \/ \E payload \in {"e1"} : SendMessageRejected(payload)

SpecChat == Init /\ [][NextChat]_vars

\* History: the listed conversations are selected and their transcripts fetched.
NextHistory ==
    \/ HomeMount
    \/ \E payload \in {<<ListedConv("A"), ListedConv("B")>>} : FetchConversationsFulfilled(payload)
    \/ \E conversationId \in ConvIds : HandleSelectConversation(conversationId)
    \/ \E conversationId \in ConvIds : DispatchFetchConversationHistory(conversationId)
    \/ \E roles \in {<<>>, <<"human">>, <<"ai", "human">>, <<"human", "system">>} : FetchConversationHistoryFulfilled(roles)
    \/ \E payload \in {"e1"} : FetchConversationHistoryRejected(payload)

SpecHistory == Init /\ [][NextHistory]_vars

\* Document selection: the documents of a conversation are toggled.
NextSelect ==
    \/ HandleCreateNewChat
    \/ ContClearSelectedDocuments
    \/ \E payload \in {Conv("A", "A")} : CreateNewChatFulfilled(payload)
    \/ \E files \in {FileList(1)} : HandleUpload(files)
    \/ \E k \in {0, 1, 2} : UploadFileFulfilled(k)
    \/ ContFetchDocuments
    \/ \E k \in {2} : FetchDocumentsFulfilled(k)
    \/ \E docName \in Range(state.documents) : HandleToggleDocument(docName)

SpecSelect == Init /\ [][NextSelect]_vars

\* Every operation family with one input each and both outcomes, in one
\* conversation (a create succeeds only while conversations is empty): what
\* the flags isLoading, isSending, isUploading and isSearching report while
\* calls overlap.
NextFlags ==
    \/ HomeMount
    \/ \E payload \in {<<>>} : FetchConversationsFulfilled(payload)
    \/ \E payload \in {"e1"} : FetchConversationsRejected(payload)
    \/ HandleCreateNewChat
    \/ ContClearSelectedDocuments
    \/ \E payload \in {Conv("A", "A")} : state.conversations = <<>> /\ CreateNewChatFulfilled(payload)
    \/ \E payload \in {"e1"} : CreateNewChatRejected(payload)
    \/ \E conversationId \in {"A"} : HandleDeleteConversation(conversationId)
    \/ DeleteConversationFulfilled
    \/ \E payload \in {"e1"} : DeleteConversationRejected(payload)
    \/ \E conversationId \in {"A"} : DispatchFetchConversationHistory(conversationId)
    \/ \E roles \in {<<"ai">>} : FetchConversationHistoryFulfilled(roles)
    \/ \E payload \in {"e1"} : FetchConversationHistoryRejected(payload)
    \/ \E docName \in Range(state.documents) : HandleToggleDocument(docName)
    \/ \E userQuery \in {"q"}, now \in {0} : HandleSendMessage(userQuery, now)
    \/ ContSendMessage
    \/ \E response \in {""}, now \in {0} : SendMessageFulfilled(response, now)
    \/ \E payload \in {"e1"} : SendMessageRejected(payload)
    \/ \E files \in {FileList(1)} : HandleUpload(files)
    \/ \E k \in {1} : UploadFileFulfilled(k)
    \/ \E payload \in {"e1"} : UploadFileRejected(payload)
    \/ ContFetchDocuments
    \/ \E k \in {1} : FetchDocumentsFulfilled(k)
    \/ \E payload \in {"e1"} : FetchDocumentsRejected(payload)
    \/ \E url \in {"u"} : HandleProcess(url)
    \/ IngestUrlFulfilled
    \/ \E payload \in {"e1"} : IngestUrlRejected(payload)
    \/ \E topic \in {"t"} : HandleSearch(topic)
    \/ \E k \in {1} : SearchTopicFulfilled(k)
    \/ \E payload \in {"e1"} : SearchTopicRejected(payload)
    \/ \E topic \in {"t"}, selectedUrls \in {<<1>>} : HandleIngestSelected(topic, selectedUrls)
    \/ ContClearTopicSearchResults
    \/ IngestTopicFulfilled
    \/ \E payload \in {"e1"} : IngestTopicRejected(payload)
    \/ \E activeMessageId \in FeedbackTargets, selectedRating \in {1} : HandleSubmitFeedback(activeMessageId, selectedRating)
    \/ SubmitFeedbackFulfilled
    \/ \E payload \in {"e1"} : SubmitFeedbackRejected(payload)

SpecFlags == Init /\ [][NextFlags]_vars

\* A failing backend: every operation family is dispatched and fails with one
\* of two payloads; only what later operations need succeeds (a created
\* conversation, an uploaded document, a loaded answer, a search result).
NextError ==
    \/ HomeMount
    \/ \E payload \in Errors : FetchConversationsRejected(payload)
    \/ HandleCreateNewChat
    \/ ContClearSelectedDocuments
    \/ \E payload \in {Conv("A", "A")} : state.conversations = <<>> /\ CreateNewChatFulfilled(payload)
    \/ \E payload \in Errors : CreateNewChatRejected(payload)
    \/ \E conversationId \in {"A"} : HandleDeleteConversation(conversationId)
    \/ \E payload \in Errors : DeleteConversationRejected(payload)
    \/ \E conversationId \in {"A"} : DispatchFetchConversationHistory(conversationId)
    \/ \E roles \in {<<"ai">>} : FetchConversationHistoryFulfilled(roles)
    \/ \E payload \in Errors : FetchConversationHistoryRejected(payload)
    \/ \E docName \in Range(state.documents) : HandleToggleDocument(docName)
    \/ \E userQuery \in {"q"}, now \in {0} : HandleSendMessage(userQuery, now)
    \/ ContSendMessage
    \/ \E payload \in Errors : SendMessageRejected(payload)
    \/ \E files \in {FileList(1)} : HandleUpload(files)
    \/ \E k \in {1} : UploadFileFulfilled(k)
    \/ \E payload \in Errors : UploadFileRejected(payload)
    \/ ContFetchDocuments
    \/ \E payload \in Errors : FetchDocumentsRejected(payload)
    \/ \E url \in {"u"} : HandleProcess(url)
    \/ \E payload \in Errors : IngestUrlRejected(payload)
    \/ \E topic \in {"t"} : HandleSearch(topic)
    \/ \E k \in {1} : SearchTopicFulfilled(k)
    \/ \E payload \in Errors : SearchTopicRejected(payload)
    \/ \E topic \in {"t"}, selectedUrls \in {<<1>>} : HandleIngestSelected(topic, selectedUrls)
    \/ ContClearTopicSearchResults
    \/ \E payload \in Errors : IngestTopicRejected(payload)
    \/ \E activeMessageId \in FeedbackTargets, selectedRating \in {1} : HandleSubmitFeedback(activeMessageId, selectedRating)
    \/ \E payload \in Errors : SubmitFeedbackRejected(payload)

SpecError == Init /\ [][NextError]_vars

\* The feedback dialog: any star rating, set or unset, on any answer shown,
\* with and without a current conversation.
NextFeedback ==
    \/ HandleCreateNewChat
    \/ ContClearSelectedDocuments
    \/ \E payload \in {Conv("A", "A")} : CreateNewChatFulfilled(payload)
    \/ \E conversationId \in {"A"} : DispatchFetchConversationHistory(conversationId)
    \/ \E roles \in {<<"ai">>, <<"human", "ai">>} : FetchConversationHistoryFulfilled(roles)
    \/ \E activeMessageId \in FeedbackTargets \cup {NoMsgId}, selectedRating \in 0..MaxRating :
        HandleSubmitFeedback(activeMessageId, selectedRating)
    \/ SubmitFeedbackFulfilled
    \/ \E payload \in {"e1"} : SubmitFeedbackRejected(payload)

SpecFeedback == Init /\ [][NextFeedback]_vars

\* Switching between two listed conversations while documents are uploaded,
\* listed and selected.
NextSwitch ==
    \/ HomeMount
    \/ \E payload \in {<<ListedConv("A"), ListedConv("B")>>} : FetchConversationsFulfilled(payload)
    \/ \E conversationId \in ConvIds : HandleSelectConversation(conversationId)
    \/ \E files \in {FileList(1)} : HandleUpload(files)
    \/ \E k \in {1} : UploadFileFulfilled(k)
    \/ ContFetchDocuments
    \/ \E k \in {1, 2} : FetchDocumentsFulfilled(k)
    \/ \E docName \in Range(state.documents) : HandleToggleDocument(docName)

SpecSwitch == Init /\ [][NextSwitch]_vars

\* A conversation B is created while the list requested at mount is in flight:
\* the backend's list is its snapshot from before the creation (empty) or,
\* once the creation was requested, from after it; the response to the
\* creation carries conversation_id with or without id.
NextRefresh ==
    \/ HomeMount
    \/ \E payload \in {<<>>} : FetchConversationsFulfilled(payload)
    \/ \E payload \in {<<ListedConv("B")>>} : Outstanding("createNewChat") # {} /\ FetchConversationsFulfilled(payload)
    \/ HandleCreateNewChat
    \/ ContClearSelectedDocuments
    \/ \E payload \in {Conv("B", "B"), Conv(Undefined, "B")} : CreateNewChatFulfilled(payload)
    \/ \E conversationId \in SidebarIds : HandleSelectConversation(conversationId)
    \/ \E conversationId \in SidebarIds : HandleDeleteConversation(conversationId)
    \/ DeleteConversationFulfilled
    \/ \E payload \in {"e1"} : DeleteConversationRejected(payload)

SpecRefresh == Init /\ [][NextRefresh]_vars

\* Sends in quick succession: Date.now() may or may not have advanced between
\* two reads (user messages and answers).
NextIds ==
    \/ HandleCreateNewChat
    \/ ContClearSelectedDocuments
    \/ \E payload \in {Conv("A", "A")} : state.conversations = <<>> /\ CreateNewChatFulfilled(payload)
    \/ \E files \in {FileList(1)} : HandleUpload(files)
    \/ \E k \in {1} : UploadFileFulfilled(k)
    \/ ContFetchDocuments
    \/ \E k \in {1} : FetchDocumentsFulfilled(k)
    \/ \E docName \in Range(state.documents) : HandleToggleDocument(docName)
    \/ \E userQuery \in {"q"}, now \in {0, 1} : HandleSendMessage(userQuery, now)
    \/ ContSendMessage
    \/ \E response \in {"r"}, now \in {0, 1} : SendMessageFulfilled(response, now)

SpecIds == Init /\ [][NextIds]_vars

\* The three ingestion tabs with and without a conversation, a file list, a
\* URL and a URL selection.
NextIngest ==
    \/ HandleCreateNewChat
    \/ ContClearSelectedDocuments
    \/ \E payload \in {Conv("A", "A")} : state.conversations = <<>> /\ CreateNewChatFulfilled(payload)
    \/ \E files \in {FileList(0), FileList(2)} : HandleUpload(files)
    \/ ContUploadFile
    \/ \E k \in {1} : UploadFileFulfilled(k)
    \/ ContFetchDocuments
    \/ \E k \in {1} : FetchDocumentsFulfilled(k)
    \/ \E url \in Blank \cup {"u"} : HandleProcess(url)
    \/ IngestUrlFulfilled
    \/ \E topic \in Blank \cup {"t"} : HandleSearch(topic)
    \/ \E k \in {2} : SearchTopicFulfilled(k)
    \/ \E payload \in {"e1"} : SearchTopicRejected(payload)
    \/ \E topic \in {"t"}, selectedUrls \in UrlSelections : HandleIngestSelected(topic, selectedUrls)
    \/ ContClearTopicSearchResults
    \/ IngestTopicFulfilled

SpecIngest == Init /\ [][NextIngest]_vars

\* Scenario: uploads of two files, each call succeeding with a list of its own
\* or failing, and invocations of the handler overlapping.
NextUpload ==
    \/ HandleCreateNewChat
    \/ ContClearSelectedDocuments
    \/ \E payload \in {Conv("A", "A")} : state.conversations = <<>> /\ CreateNewChatFulfilled(payload)
    \/ \E files \in {FileList(0), FileList(2)} : HandleUpload(files)
    \/ ContUploadFile
    \/ \E k \in {1, 2} : UploadFileFulfilled(k)
    \/ \E payload \in {"e1"} : UploadFileRejected(payload)
    \/ ContFetchDocuments
    \/ \E k \in {1, 2} : FetchDocumentsFulfilled(k)
    \/ \E payload \in {"e1"} : FetchDocumentsRejected(payload)

SpecUpload == Init /\ [][NextUpload]_vars

\* Scenario: the feedback dialog of a conversation with two assistant
\* messages: opening, rating, submitting, dismissing, and submissions
\* resolving whenever they do.
NextDialog ==
    \/ HandleCreateNewChat
    \/ ContClearSelectedDocuments
    \/ \E payload \in {Conv("A", "A")} : state.conversations = <<>> /\ CreateNewChatFulfilled(payload)
    \/ \E conversationId \in {"A"} : state.messages = <<>> /\ DispatchFetchConversationHistory(conversationId)
    \/ \E roles \in {<<"ai", "ai">>} : FetchConversationHistoryFulfilled(roles)
    \/ \E msgId \in FeedbackTargets, open \in BOOLEAN : OnOpenChange(msgId, open)
    \/ \E value \in 1..MaxRating : SetSelectedRating(value)
    \/ SubmitFeedbackOfDialog
    \/ SubmitFeedbackOfDialogFulfilled
    \/ \E payload \in {"e1"} \cup ObjectPayloads : SubmitFeedbackOfDialogRejected(payload)

SpecDialog == Init /\ [][NextDialog]_vars

\* Scenario: a question is sent in one of two listed conversations and the
\* user selects, creates or deletes a conversation before the answer arrives.
NextLate ==
    \/ HomeMount
    \/ \E payload \in {<<ListedConv("A"), ListedConv("B")>>} : FetchConversationsFulfilled(payload)
    \/ \E conversationId \in ConvIds : HandleSelectConversation(conversationId)
    \/ \E files \in {FileList(1)} : state.documents = <<>> /\ HandleUpload(files)
    \/ \E k \in {1} : UploadFileFulfilled(k)
    \/ ContFetchDocuments
    \/ \E k \in {1} : FetchDocumentsFulfilled(k)
    \/ \E docName \in Range(state.documents) : state.selectedDocuments = <<>> /\ HandleToggleDocument(docName)
    \/ \E userQuery \in {"q"} : HandleSendMessage(userQuery, 0)
    \/ ContSendMessage
    \/ \E response \in {"", "r"} : SendMessageFulfilled(response, 0)
    \/ \E conversationId \in SidebarIds : HandleDeleteConversation(conversationId)
    \/ DeleteConversationFulfilled

SpecLate == Init /\ [][NextLate]_vars

\* ------------------------------------------------------------------ claims
Is(type, phase) == last.type = type /\ last.phase = phase

\* The entries of convs whose id is not `id`, in their order, stated position
\* by position: kept entry number n of convs is entry number n of the result.
IsRemovalOf(result, convs, id) ==
    LET keptIdx == {i \in 1..Len(convs) : convs[i].id # id}
    IN  /\ Len(result) = Cardinality(keptIdx)
        /\ \A i \in keptIdx : result[Cardinality({j \in keptIdx : j <= i})] = convs[i]

\* C1: reducing createNewChat.fulfilled appends the returned record at the end
\* of conversations, makes its conversation_id the current conversation and
\* leaves messages, documents and selectedDocuments empty.
C1_CreateSucceeded ==
    Is("createNewChat", "fulfilled") =>
        /\ state.conversations = Append(last.pre.conversations, last.conv)
        /\ state.currentConversationId = last.conv.conversation_id
        /\ state.messages = <<>>
        /\ state.documents = <<>>
        /\ state.selectedDocuments = <<>>

C1_Witness ==
    /\ Is("createNewChat", "fulfilled")
    /\ last.pre.conversations # <<>>
    /\ last.pre.messages # <<>>
    /\ last.pre.documents # <<>>
    /\ last.pre.selectedDocuments # <<>>
    /\ last.pre.currentConversationId # last.conv.conversation_id

\* C2: when deleteConversation.fulfilled is reduced for the conversation that
\* is current at that moment, currentConversationId becomes null and
\* messages, documents and selectedDocuments become empty.
C2_DeleteCurrentClears ==
    (Is("deleteConversation", "fulfilled") /\ last.str = last.pre.currentConversationId) =>
        /\ state.currentConversationId = Null
        /\ state.messages = <<>>
        /\ state.documents = <<>>
        /\ state.selectedDocuments = <<>>

C2_Witness ==
    /\ Is("deleteConversation", "fulfilled")
    /\ last.str = last.pre.currentConversationId
    /\ last.pre.messages # <<>>
    /\ last.pre.documents # <<>>
    /\ last.pre.selectedDocuments # <<>>

\* C3: when deleteConversation.fulfilled is reduced for a conversation other
\* than the current one, messages, documents, selectedDocuments and
\* currentConversationId are unchanged, and conversations loses exactly the
\* entries with that id, the others keeping their order.
C3_DeleteOtherInert ==
    (Is("deleteConversation", "fulfilled") /\ last.str # last.pre.currentConversationId) =>
        /\ state.messages = last.pre.messages
        /\ state.documents = last.pre.documents
        /\ state.selectedDocuments = last.pre.selectedDocuments
        /\ state.currentConversationId = last.pre.currentConversationId
        /\ \A i \in 1..Len(state.conversations) : state.conversations[i].id # last.str
        /\ IsRemovalOf(state.conversations, last.pre.conversations, last.str)

C3_Witness ==
    /\ Is("deleteConversation", "fulfilled")
    /\ Truthy(last.pre.currentConversationId)
    /\ last.str # last.pre.currentConversationId
    /\ Len(last.pre.conversations) = MaxConvs
    /\ Len(state.conversations) = Len(last.pre.conversations) - 1
    /\ last.pre.messages # <<>>
    /\ last.pre.documents # <<>>
    /\ last.pre.selectedDocuments # <<>>

IsPrefix(s, u) == Len(s) <= Len(u) /\ \A i \in 1..Len(s) : u[i] = s[i]

\* The optimistic user message of the send `call` is at position i of msgs.
IsEchoAt(msgs, i, call) == msgs[i].role = "user" /\ msgs[i].content = call.text /\ msgs[i].id.prefix = "user_"

HasEcho(msgs, call) == \E i \in 1..Len(msgs) : IsEchoAt(msgs, i, call)

\* C4: a send attempt with a blank query, no current conversation or no
\* selected document dispatches nothing and changes nothing; every
\* sendMessage call was dispatched, with the current conversation and the
\* current selection, from a state that had both.
C4_SendGate ==
    /\ Is("handleSendMessage", "noop") =>
        /\ state = last.pre
        /\ inflight = last.calls
        /\ cont = <<>>
    /\ Is("addLocalMessage", "reducer") =>
        /\ Truthy(Trim(last.str))
        /\ Truthy(last.pre.currentConversationId)
        /\ Len(last.pre.selectedDocuments) > 0
    /\ Is("sendMessage", "pending") =>
        /\ Truthy(last.pre.currentConversationId)
        /\ Len(last.pre.selectedDocuments) > 0
        /\ last.call.cid = last.pre.currentConversationId
        /\ last.call.docs = last.pre.selectedDocuments
    /\ \A call \in Outstanding("sendMessage") :
        /\ Truthy(Trim(call.text))
        /\ Truthy(call.cid)
        /\ Len(call.docs) > 0

C4_Witness ==
    /\ Is("handleSendMessage", "noop")
    /\ last.str = "q"
    /\ Truthy(last.pre.currentConversationId)
    /\ last.pre.selectedDocuments = <<>>
    /\ last.pre.documents # <<>>
    /\ last.pre.messages # <<>>

\* What C5 and its amendment share: the user message is the last message
\* when the sendMessage call starts.
EchoBeforeCall ==
    Is("sendMessage", "pending") =>
        /\ Len(last.pre.messages) > 0
        /\ IsEchoAt(last.pre.messages, Len(last.pre.messages), last.call)
        /\ state.messages = last.pre.messages

SendFailureEffect ==
    Is("sendMessage", "rejected") =>
        /\ state.messages = last.pre.messages
        /\ state.error = last.str
        /\ state.isSending = FALSE

\* C6 as stated: after sendMessage fails, no assistant message was appended,
\* error is the failure payload, isSending is false and the optimistic user
\* message of that send is in messages.
C6_Original ==
    /\ SendFailureEffect
    /\ Is("sendMessage", "rejected") => HasEcho(state.messages, last.call)

\* C6 amended: the failure leaves messages exactly as it was (nothing is
\* appended, nothing is retracted), sets error to the failure payload and
\* clears isSending; the optimistic user message is in messages afterwards if
\* it was there when the failure arrived.
C6_SendFailed ==
    /\ SendFailureEffect
    /\ (Is("sendMessage", "rejected") /\ HasEcho(last.pre.messages, last.call)) => HasEcho(state.messages, last.call)
    /\ Is("sendMessage", "rejected") =>
        /\ state.conversations = last.pre.conversations
        /\ state.currentConversationId = last.pre.currentConversationId

C6_Witness ==
    /\ Is("sendMessage", "rejected")
    /\ HasEcho(state.messages, last.call)
    /\ last.pre.isSending
    /\ last.pre.error = Null

\* Every document identifier a checkbox can carry.
DocNames == {DocName(c, k) : c \in ConvIds, k \in 1..3}

\* C7: toggling the same document identifier twice gives a selectedDocuments
\* with exactly the identifiers it had before, whether the identifier was
\* selected or not (the order may differ).
C7_ToggleRoundTrip ==
    /\ \A d \in DocNames :
        Range(toggleSelectedDocument(toggleSelectedDocument(state, d), d).selectedDocuments) = Range(state.selectedDocuments)
    /\ Is("toggleSelectedDocument", "reducer") =>
        Range(toggleSelectedDocument(state, last.seq[1]).selectedDocuments) = Range(last.pre.selectedDocuments)

C7_Witness ==
    /\ Is("toggleSelectedDocument", "reducer")
    /\ Len(last.pre.selectedDocuments) = 2
    /\ last.seq[1] = last.pre.selectedDocuments[1]
    /\ Len(state.selectedDocuments) = 1
    /\ toggleSelectedDocument(state, last.seq[1]).selectedDocuments # last.pre.selectedDocuments

\* C8: a history load that succeeds replaces messages by the backend records
\* mapped one to one in order, role "human" to user and any other role to
\* assistant, text to content, id to id; no earlier message survives.
C8_HistoryMapping ==
    Is("fetchConversationHistory", "fulfilled") =>
        /\ Len(state.messages) = Len(last.seq)
        /\ \A i \in 1..Len(last.seq) :
            /\ state.messages[i].role = (IF last.seq[i].role = "human" THEN "user" ELSE "assistant")
            /\ state.messages[i].content = last.seq[i].text
            /\ state.messages[i].id = last.seq[i].id
        /\ \A i \in 1..Len(state.messages) : state.messages[i].role \in {"user", "assistant"}

C8_Witness ==
    /\ Is("fetchConversationHistory", "fulfilled")
    /\ Len(last.pre.messages) = 2
    /\ Len(last.seq) = 2
    /\ last.seq[2].role = "system"
    /\ state.messages[1].role = "user"
    /\ \A i \in 1..2 : \A j \in 1..2 : state.messages[i] # last.pre.messages[j]

\* C9: a history load for conversation A that succeeds after
\* currentConversationId became B overwrites messages with A's transcript
\* and leaves currentConversationId at B; the event is applied whatever the
\* current conversation is.
C9_StaleHistoryOverwrites ==
    (Is("fetchConversationHistory", "fulfilled") /\ last.call.cid # state.currentConversationId) =>
        /\ state.currentConversationId = last.pre.currentConversationId
        /\ last.seq = Transcript(last.call.cid, [i \in 1..Len(last.seq) |-> last.seq[i].role])
        /\ state.messages = [i \in 1..Len(last.seq) |-> HistoryMessage(last.seq[i])]
        /\ inflight = last.calls (-) SetToBag({last.call})

C9_Witness ==
    /\ Is("fetchConversationHistory", "fulfilled")
    /\ last.call.cid = "A"
    /\ state.currentConversationId = "B"
    /\ Len(state.messages) > 0
    /\ \A i \in 1..Len(state.messages) : state.messages[i].id.prefix = "A"
    /\ state.messages # last.pre.messages

\* The operation families and the flag each one's lifecycle writes.
Families ==
    {"createNewChat", "fetchConversations", "deleteConversation", "fetchConversationHistory", "uploadFile", "ingestUrl",
     "searchTopic", "ingestTopic", "fetchDocuments", "sendMessage", "submitFeedback"}

FlagOf(op) ==
    CASE op = "sendMessage" -> "isSending"
      [] op = "uploadFile" -> "isUploading"
      [] op = "searchTopic" -> "isSearching"
      [] OTHER -> "isLoading"

Flags == {"isLoading", "isSending", "isUploading", "isSearching"}

\* C10: the started event of an operation sets the flag of its category
\* (isSending for sendMessage, isUploading for uploadFile, isSearching for
\* searchTopic, isLoading for the eight others) and its succeeded or failed
\* event clears that flag, whatever else of the category is in flight; no
\* event writes another category's flag.
C10_CoarseFlags ==
    last.type \in Families =>
        /\ last.phase = "pending" => state[FlagOf(last.type)] = TRUE
        /\ last.phase \in {"fulfilled", "rejected"} => state[FlagOf(last.type)] = FALSE
        /\ \A f \in Flags \ {FlagOf(last.type)} : state[f] = last.pre[f]

\* isLoading is false although a call of its category is still in flight.
C10_Witness ==
    /\ Is("createNewChat", "fulfilled")
    /\ last.pre.isLoading
    /\ ~state.isLoading
    /\ Outstanding("fetchConversations") # {}

\* The families whose started event also writes error = null.
ClearingFamilies == {"createNewChat", "uploadFile", "ingestUrl", "searchTopic", "ingestTopic", "sendMessage"}

\* What C11 and its amendment share: a failed event clears its family's flag
\* and puts its payload into error, whatever error held.
FailureSetsError ==
    (last.type \in Families /\ last.phase = "rejected") =>
        /\ state[FlagOf(last.type)] = FALSE
        /\ state.error = last.str

\* C11 as stated: a failed event clears the flag and sets error to its
\* payload, and error keeps its value until a later failure or clearError:
\* no other step writes it.
C11_Original ==
    /\ FailureSetsError
    /\ (last.phase # "rejected" /\ last.type # "clearError") => state.error = last.pre.error

\* C11 amended: a failed event clears the flag and sets error to its payload;
\* error then keeps that value until a later failure overwrites it, clearError
\* is applied, or the started event of createNewChat, uploadFile, ingestUrl,
\* searchTopic, ingestTopic or sendMessage resets it to null; no other step
\* writes it, so a non-null error is the payload of the most recent failure.
C11_ErrorSlot ==
    /\ FailureSetsError
    /\ (last.phase = "pending" /\ last.type \in ClearingFamilies) => state.error = Null
    /\ (last.phase # "rejected" /\ last.type # "clearError" /\ ~(last.phase = "pending" /\ last.type \in ClearingFamilies)) =>
        state.error = last.pre.error

\* A failure of one family overwrites the unacknowledged failure of another.
C11_Witness ==
    /\ Is("fetchDocuments", "rejected")
    /\ last.pre.error = "e1"
    /\ state.error = "e2"
    /\ Outstanding("fetchConversations") = {}
    /\ mounted

IsFeedbackEvent == last.type = "submitFeedback" /\ last.phase \in {"pending", "fulfilled", "rejected"}

\* C12 as stated: no lifecycle event of submitFeedback changes any field of
\* the state.
C12_Original == IsFeedbackEvent => state = last.pre

\* C12 amended: no lifecycle event of submitFeedback changes messages or any
\* other field of the state except isLoading, which the started event sets and
\* the succeeded and failed events clear, and error, which the failed event
\* sets to the failure's payload.
C12_FeedbackFrame ==
    IsFeedbackEvent =>
        /\ state = [last.pre EXCEPT !.isLoading = state.isLoading, !.error = state.error]
        /\ state.isLoading = (last.phase = "pending")
        /\ state.error = (IF last.phase = "rejected" THEN last.str ELSE last.pre.error)

C12_Witness ==
    /\ Is("submitFeedback", "fulfilled")
    /\ state.messages # <<>>
    /\ state.documents # <<>>
    /\ state.error # Null
    /\ last.pre.isLoading
    /\ last.call.mid \in FeedbackTargets

\* C13: every submitFeedback call carries a rating from 1 to 5, the current
\* conversation id and the id of an answer; an attempt with the rating unset
\* (0) dispatches nothing.
C13_FeedbackRating ==
    /\ \A call \in Outstanding("submitFeedback") :
        /\ call.n \in 1..MaxRating
        /\ Truthy(call.cid)
        /\ call.mid # NoMsgId
    /\ Is("submitFeedback", "pending") =>
        /\ last.call.n \in 1..MaxRating
        /\ last.call.cid = last.pre.currentConversationId
        /\ Truthy(last.call.cid)
        /\ \E i \in 1..Len(last.pre.messages) : last.pre.messages[i].id = last.call.mid /\ last.pre.messages[i].role = "assistant"
    /\ Is("handleSubmitFeedback", "noop") =>
        /\ state = last.pre
        /\ inflight = last.calls

\* The rating is unset while a conversation is open and an answer is shown.
C13_Witness ==
    /\ Is("handleSubmitFeedback", "noop")
    /\ last.seq = <<0>>
    /\ Truthy(state.currentConversationId)
    /\ FeedbackTargets # {}

\* The fields C14 speaks of.
ConversationData(s) == <<s.conversations, s.currentConversationId, s.messages, s.documents, s.selectedDocuments>>

\* C14: when a createNewChat fails right after the user invoked it, error is
\* the failure's payload and conversations, currentConversationId, messages,
\* documents and selectedDocuments are what they were before the invocation
\* (the state the handler's last dispatch started from, which its first
\* dispatch had left alone in these fields).
C14_CreateFailureFrame ==
    [][(Is("clearSelectedDocuments", "reducer") /\ last'.type = "createNewChat" /\ last'.phase = "rejected") =>
        /\ state'.error = last'.str
        /\ ConversationData(state') = ConversationData(last.pre)]_vars

\* C15: every document and selected document is one of the current
\* conversation's, every message loaded from a transcript was loaded from the
\* current conversation's, and all three lists are empty when there is no
\* current conversation.
C15_Scoped ==
    /\ \A i \in 1..Len(state.documents) : state.documents[i].conv = state.currentConversationId
    /\ \A i \in 1..Len(state.selectedDocuments) : state.selectedDocuments[i].conv = state.currentConversationId
    /\ \A i \in 1..Len(state.messages) :
        state.messages[i].id.prefix \in ConvIds => state.messages[i].id.prefix = state.currentConversationId
    /\ ~Truthy(state.currentConversationId) =>
        state.messages = <<>> /\ state.documents = <<>> /\ state.selectedDocuments = <<>>

\* Some entry of convs stands for conversation id, by its id or by its
\* conversation_id.
HasEntry(convs, id) == \E i \in 1..Len(convs) : convs[i].id = id \/ convs[i].conversation_id = id

\* C16: once a list of the conversations has arrived, a current conversation
\* is one of conversations (before that, only a creation can have set it, and
\* the created entry has not been listed yet).
C16_CurrentListed ==
    (Is("fetchConversations", "fulfilled") /\ Truthy(state.currentConversationId)) =>
        HasEntry(state.conversations, state.currentConversationId)

\* C17: no two entries of messages have the same id.
C17_UniqueMessageIds ==
    \A i \in 1..Len(state.messages) : \A j \in 1..Len(state.messages) :
        i # j => state.messages[i].id # state.messages[j].id

IngestionFamilies == {"uploadFile", "ingestUrl", "ingestTopic"}

\* C18: every uploadFile, ingestUrl and ingestTopic call carries a conversation
\* id; an attempt without a conversation, with no file, with a blank URL or
\* with no URL selected dispatches nothing and leaves the state, error
\* included, as it was; an attempt is refused for one of these reasons only.
C18_IngestionPreconditions ==
    /\ \A call \in BagToSet(inflight) : call.op \in IngestionFamilies => Truthy(call.cid)
    /\ (last.phase = "pending" /\ last.type \in IngestionFamilies) => Truthy(last.call.cid)
    /\ Is("ingestUrl", "pending") => Truthy(Trim(last.call.text)) /\ last.call.cid = last.pre.currentConversationId
    /\ Is("ingestTopic", "pending") => Len(last.seq) > 0 /\ last.call.cid = last.pre.currentConversationId
    /\ (last.phase = "noop" /\ last.type \in {"handleUpload", "handleProcess", "handleIngestSelected"}) =>
        /\ state = last.pre
        /\ inflight = last.calls
        /\ cont = <<>>
    /\ Is("handleUpload", "noop") => Len(last.seq) = 0 \/ ~Truthy(state.currentConversationId)
    /\ Is("handleProcess", "noop") => ~Truthy(Trim(last.str)) \/ ~Truthy(state.currentConversationId)
    /\ Is("handleIngestSelected", "noop") => Len(last.seq) = 0 \/ ~Truthy(state.currentConversationId)

\* A URL is submitted without a conversation, while a topic search dispatched
\* without a conversation is in flight and an error is displayed.
C18_Witness ==
    /\ Is("handleProcess", "noop")
    /\ last.str = "u"
    /\ ~Truthy(state.currentConversationId)
    /\ state.error = "e1"
    /\ Outstanding("searchTopic") # {}

\* C19: the request of an ingestTopic identifies the selected URLs: with the
\* same topic and conversation, any other selection the user could have
\* submitted would have issued a different request.
C19_IngestTopicSelection ==
    Is("ingestTopic", "pending") =>
        \A selectedUrls \in UrlSelections \ {<<>>, last.seq} :
            IngestTopicCall(last.str, last.call.cid, selectedUrls) # last.call

\* C20: after deleteConversation(X) succeeds, conversations holds no entry
\* for conversation X, whether the entry came from the list or was appended
\* by a successful createNewChat.
C20_DeleteRemovesEntry ==
    (Is("deleteConversation", "fulfilled") /\ Truthy(last.str)) => ~HasEntry(state.conversations, last.str)

\* C21: when the list of conversations arrives, conversations is exactly the
\* backend's list, nothing of the previous list surviving, and
\* currentConversationId, messages, documents and selectedDocuments are
\* unchanged.
C21_ListReplaces ==
    Is("fetchConversations", "fulfilled") =>
        /\ state.conversations = last.seq
        /\ state.currentConversationId = last.pre.currentConversationId
        /\ state.messages = last.pre.messages
        /\ state.documents = last.pre.documents
        /\ state.selectedDocuments = last.pre.selectedDocuments

C21_Witness ==
    /\ Is("fetchConversations", "fulfilled")
    /\ last.pre.conversations # <<>>
    /\ state.conversations # last.pre.conversations
    /\ Len(state.conversations) = 2
    /\ Truthy(state.currentConversationId)
    /\ state.documents # <<>>

\* C22: selecting a conversation sets currentConversationId to the chosen id
\* and changes no other field of the state; it starts no backend call and
\* leaves nothing to dispatch.
C22_SelectFrame ==
    Is("setCurrentConversationId", "reducer") =>
        /\ state = [last.pre EXCEPT !.currentConversationId = last.str]
        /\ inflight = last.calls
        /\ cont = <<>>

C22_Witness ==
    /\ Is("setCurrentConversationId", "reducer")
    /\ Truthy(last.pre.currentConversationId)
    /\ state.currentConversationId # last.pre.currentConversationId
    /\ state.messages # <<>>
    /\ state.documents # <<>>
    /\ state.selectedDocuments # <<>>

IsResolved(step, type) == step.type = type /\ step.phase \in {"fulfilled", "rejected"}

\* C23: the files of one upload go out one uploadFile call at a time in list
\* order: the call for a later file starts only as the step that follows the
\* resolution (success or failure) of the call for the file before it, and
\* that resolution is always followed by it; a successful call leaves
\* documents equal to the list it returned, whatever was there; and the
\* document list is requested only as the step that follows the resolution of
\* the call for the last file.
C23_SequentialUpload ==
    /\ [](Is("uploadFile", "fulfilled") => state.documents = last.seq)
    /\ [][(last'.type = "uploadFile" /\ last'.phase = "pending" /\ last'.call.n # 1) =>
            /\ IsResolved(last, "uploadFile")
            /\ last.call.cid = last'.call.cid
            /\ last.call.rest = <<last'.call.n>> \o last'.call.rest]_vars
    /\ [][(IsResolved(last, "uploadFile") /\ last.call.rest # <<>>) =>
            /\ last'.type = "uploadFile" /\ last'.phase = "pending"
            /\ last'.call.cid = last.call.cid
            /\ last'.call.n = Head(last.call.rest)
            /\ last'.call.rest = Tail(last.call.rest)]_vars
    /\ [][(last'.type = "fetchDocuments" /\ last'.phase = "pending") =>
            /\ IsResolved(last, "uploadFile")
            /\ last.call.rest = <<>>
            /\ last.call.cid = last'.call.cid]_vars

C23_Witness ==
    /\ Is("uploadFile", "fulfilled")
    /\ last.call.n = 2
    /\ last.call.rest = <<>>
    /\ last.pre.documents # <<>>
    /\ state.documents # last.pre.documents
    /\ cont = <<Thunk("fetchDocuments", last.call.cid)>>

\* C24: a sendMessage success with a non-empty response appends exactly one
\* message, an assistant message carrying the response, at the end of
\* messages; with an empty response messages and error are what they were; in
\* both cases isSending becomes false and every message held before is still
\* there at its position.
C24_AnswerIffNonEmpty ==
    Is("sendMessage", "fulfilled") =>
        /\ state.isSending = FALSE
        /\ IsPrefix(last.pre.messages, state.messages)
        /\ Truthy(last.str) =>
            /\ state.messages = Append(last.pre.messages, state.messages[Len(state.messages)])
            /\ state.messages[Len(state.messages)].role = "assistant"
            /\ state.messages[Len(state.messages)].content = last.str
        /\ ~Truthy(last.str) =>
            /\ state.messages = last.pre.messages
            /\ state.error = last.pre.error

C24_Witness ==
    /\ Is("sendMessage", "fulfilled")
    /\ last.str = ""
    /\ last.pre.isSending
    /\ HasEcho(state.messages, last.call)
    /\ state.messages = last.pre.messages
    /\ Len(state.messages) = 2

\* C25: when a feedback submission fails, the dialog is on the message it was
\* on (activeMessageId is what it was before the failure, so a dialog open on
\* the rated message stays open on it), the inline error is non-empty, the
\* rating is the one chosen and the submitting indicator is off; when it
\* succeeds, no dialog is open and the rating is 0.
C25_DialogOutcome ==
    /\ Is("submitFeedback", "rejected") =>
        /\ dialog.activeMessageId = last.dlg.activeMessageId
        /\ dialog.selectedRating = last.dlg.selectedRating
        /\ dialog.feedbackError # ""
        /\ ~dialog.isSubmittingFeedback
    /\ Is("submitFeedback", "fulfilled") =>
        /\ dialog.activeMessageId = NoMsgId
        /\ dialog.selectedRating = 0

C25_Witness ==
    /\ Is("submitFeedback", "rejected")
    /\ last.dlg.isSubmittingFeedback
    /\ dialog.activeMessageId = last.call.mid
    /\ dialog.selectedRating = last.call.n
    /\ dialog.feedbackError = "Unable to submit feedback."

\* C26: the answer to a question sent in one conversation is appended to
\* messages only while that conversation is the current one: a sendMessage
\* success that arrives when currentConversationId is another conversation,
\* or none, leaves messages as it was.
C26_LateAnswerFenced ==
    (Is("sendMessage", "fulfilled") /\ last.call.cid # state.currentConversationId) =>
        state.messages = last.pre.messages

\* The conversation an entry of conversations stands for: its id, or the
\* conversation_id of an entry that has no id.
ConversationOf(entry) == IF Truthy(entry.id) THEN entry.id ELSE entry.conversation_id

\* C27: conversations never holds two entries for one conversation.
C27_NoDuplicateConversations ==
    \A i, j \in 1..Len(state.conversations) :
        i # j => ConversationOf(state.conversations[i]) # ConversationOf(state.conversations[j])

\* C28: when a feedback submission made for one message resolves while the
\* dialog is open on another message, the dialog is left as it is: still
\* open on that message, with the rating selected there and its inline error.
C28_ResolutionBoundToDialog ==
    (IsResolved(last, "submitFeedback")
        /\ last.dlg.activeMessageId # NoMsgId
        /\ last.dlg.activeMessageId # last.call.mid) =>
        /\ dialog.activeMessageId = last.dlg.activeMessageId
        /\ dialog.selectedRating = last.dlg.selectedRating
        /\ dialog.feedbackError = last.dlg.feedbackError

====
